---- MODULE Spec2Model ----
(***************************************************************************)
(* Beverage Family genealogy application (src/app.py).                     *)
(*                                                                         *)
(* The module models the four pieces of logic of the application:          *)
(*   - build_graph / add_node : the depth-bounded walk over "parents"      *)
(*   - get_person_by_id, link_person and the selection made by main()      *)
(*   - render_timeline's ordering of the events                           *)
(*   - load_json / load_data                                               *)
(* Each piece has a specification of its own (TreeSpec, LookupSpec,        *)
(* TimelineSpec, LoadSpec); the variables of the other pieces stay at      *)
(* their idle values.                                                      *)
(*                                                                         *)
(* Python values are represented as follows.                               *)
(*   dict      a record with a field "keys": the set of keys present.      *)
(*             d[k] raises KeyError when k is not in d.keys; d.get(k, x)   *)
(*             is Get(d, k, x).                                            *)
(*   Optional  None is <<>>, a value v is <<v>>.                           *)
(*   str       an identifier or a name is a TLA+ string; a date string is  *)
(*             the sequence of its characters' code points, so that the    *)
(*             lexicographic comparison of Python is computed; a formatted *)
(*             string is the sequence of its pieces.                       *)
(*   list      a sequence (1-based here, 0-based in Python).               *)
(***************************************************************************)
EXTENDS Integers, Sequences, FiniteSets, TLC

VARIABLES
    people,           \* the People collection (list of dict)
    start_id,         \* build_graph: start_id
    max_generations,  \* build_graph: max_generations
    stack,            \* build_graph: the call stack of add_node
    visited,          \* build_graph: visited
    nodes,            \* build_graph: graph.node calls, in order: <<pid, label>>
    edges,            \* build_graph: graph.edge calls, in order: <<tail, head>>
    status,           \* build_graph: "idle", "running", "done" or "raised"
    expanded_at,      \* history: <<pid, generation>> of every call that passed the guard
    lookup,           \* the lookups: [op, arg, param, out]
    timeline,         \* render_timeline: [events, sorted_events, pc]
    loader            \* load_data: [files, pc, people, events, notices, result]

vars ==
    <<people, start_id, max_generations, stack, visited, nodes, edges, status,
      expanded_at, lookup, timeline, loader>>

(***************************************************************************)
(* Bounds of the model.                                                    *)
(***************************************************************************)
\* build_graph is called with max_generations in 0..MaxGen.
MaxGen == 2

\* The lookups run on collections of at most MaxLookupPeople records.
MaxLookupPeople == 3

\* render_timeline runs on at most MaxEvents events, whose date strings have
\* at most MaxDateLen characters.
MaxEvents == 3
MaxDateLen == 2

\* A data file holds at most MaxRecords records.
MaxRecords == 2

(***************************************************************************)
(* Python values.                                                          *)
(***************************************************************************)
None == <<>>

Some(v) == <<v>>

HasKey(d, key) == key \in d.keys

\* d.get(key, default)
Get(d, key, default) == IF HasKey(d, key) THEN d[key] ELSE default

\* The sequences over S of length at most n.
SeqUpTo(S, n) == UNION {[1..k -> S] : k \in 0..n}

Range(s) == {s[k] : k \in DOMAIN s}

Min(S) == CHOOSE m \in S : \A n \in S : m <= n

(***************************************************************************)
(* The identifiers and names the inputs are drawn from.                    *)
(***************************************************************************)
\* The tree specification's collection: one record per identifier.
TreeIdPool == <<"p1", "p2", "p3">>

NamePool == <<"Ann", "Bob", "Cy", "Dee", "Eli", "Fay">>

\* An identifier no record of the tree specification's collection carries.
DanglingId == "x"

PersonIds == Range(TreeIdPool)

TreeIds == PersonIds \cup {DanglingId}

\* A person record (a dict): the keys "id", "full_name" and "parents" are each
\* present or not; an absent key's field holds a placeholder nothing reads.
Person(id, hasId, name, hasName, parents, hasParents) ==
    [id |-> id, full_name |-> name, parents |-> parents,
     keys |-> (IF hasId THEN {"id"} ELSE {})
                \cup (IF hasName THEN {"full_name"} ELSE {})
                \cup (IF hasParents THEN {"parents"} ELSE {})]

(***************************************************************************)
(* get_person_by_id: the linear scan, first match by id equality.          *)
(***************************************************************************)
RECURSIVE ScanFrom(_, _, _)
ScanFrom(ps, person_id, i) ==
    IF i > Len(ps) THEN None
    ELSE IF HasKey(ps[i], "id") /\ ps[i].id = person_id THEN Some(ps[i])
    ELSE ScanFrom(ps, person_id, i + 1)

\* A scan that keeps the last match instead of returning at the first.
get_person_by_id_Last(ps, person_id) ==
    LET hits == {i \in DOMAIN ps : HasKey(ps[i], "id") /\ ps[i].id = person_id}
    IN  IF hits = {} THEN None ELSE Some(ps[CHOOSE m \in hits : \A n \in hits : n <= m])

get_person_by_id(ps, person_id) == ScanFrom(ps, person_id, 1)

(***************************************************************************)
(* build_graph.                                                            *)
(***************************************************************************)
\* add_node's guard: "if pid in visited or generation > max_generations".
ShouldStop_NoVisited(pid, generation) == generation > max_generations

ShouldStop_OffByOne(pid, generation) ==
    pid \in visited \/ generation >= max_generations

ShouldStop(pid, generation) ==
    pid \in visited \/ generation > max_generations

\* person.get("parents", []) of a found person; nothing for an absent one.
ParentsOf(pid) ==
    LET person == get_person_by_id(people, pid)
    IN  IF person = None THEN <<>> ELSE Get(person[1], "parents", <<>>)

\* label = person["full_name"] if person else pid: raises KeyError when the
\* record has no full_name.
LabelRaises(pid) ==
    LET person == get_person_by_id(people, pid)
    IN  person # None /\ ~HasKey(person[1], "full_name")

Label(pid) ==
    LET person == get_person_by_id(people, pid)
    IN  IF person = None THEN pid ELSE person[1].full_name

Top == stack[Len(stack)]

Frame(pid, generation) == [pid |-> pid, generation |-> generation, pc |-> "enter", i |-> 0]

\* The stack after the top frame has returned; build_graph returns the graph
\* when the outermost add_node returns.
Pop ==
    /\ stack' = SubSeq(stack, 1, Len(stack) - 1)
    /\ status' = IF Len(stack) = 1 THEN "done" ELSE "running"

\* add_node returns at once: the identifier was visited or lies beyond the bound.
AddNodeStop ==
    /\ status = "running" /\ stack # <<>> /\ Top.pc = "enter"
    /\ ShouldStop(Top.pid, Top.generation)
    /\ Pop
    /\ UNCHANGED <<people, start_id, max_generations, visited, nodes, edges,
                   expanded_at, lookup, timeline, loader>>

\* visited.add(pid), then the label cannot be built: KeyError leaves build_graph.
AddNodeRaise ==
    /\ status = "running" /\ stack # <<>> /\ Top.pc = "enter"
    /\ ~ShouldStop(Top.pid, Top.generation)
    /\ LabelRaises(Top.pid)
    /\ visited' = visited \cup {Top.pid}
    /\ expanded_at' = expanded_at \cup {<<Top.pid, Top.generation>>}
    /\ stack' = <<>>
    /\ status' = "raised"
    /\ UNCHANGED <<people, start_id, max_generations, nodes, edges,
                   lookup, timeline, loader>>

\* visited.add(pid); graph.node(pid, label).
AddNodeEmit ==
    /\ status = "running" /\ stack # <<>> /\ Top.pc = "enter"
    /\ ~ShouldStop(Top.pid, Top.generation)
    /\ ~LabelRaises(Top.pid)
    /\ visited' = visited \cup {Top.pid}
    /\ expanded_at' = expanded_at \cup {<<Top.pid, Top.generation>>}
    /\ nodes' = Append(nodes, <<Top.pid, Label(Top.pid)>>)
    /\ stack' = [stack EXCEPT ![Len(stack)].pc = "loop"]
    /\ UNCHANGED <<people, start_id, max_generations, edges, status,
                   lookup, timeline, loader>>

\* One turn of "for parent_id in ...": graph.edge(parent_id, pid), then the
\* call add_node(parent_id, generation + 1).
AddNodeParent ==
    /\ status = "running" /\ stack # <<>> /\ Top.pc = "loop"
    /\ Top.i < Len(ParentsOf(Top.pid))
    /\ LET parent_id == ParentsOf(Top.pid)[Top.i + 1]
       IN  /\ edges' = Append(edges, <<parent_id, Top.pid>>)
           /\ stack' = Append([stack EXCEPT ![Len(stack)].i = Top.i + 1],
                              Frame(parent_id, Top.generation + 1))
    /\ UNCHANGED <<people, start_id, max_generations, visited, nodes, status,
                   expanded_at, lookup, timeline, loader>>

\* The loop is over (or the person is absent): add_node returns.
AddNodeDone ==
    /\ status = "running" /\ stack # <<>> /\ Top.pc = "loop"
    /\ Top.i >= Len(ParentsOf(Top.pid))
    /\ Pop
    /\ UNCHANGED <<people, start_id, max_generations, visited, nodes, edges,
                   expanded_at, lookup, timeline, loader>>

(***************************************************************************)
(* Idle values of the other pieces.                                        *)
(***************************************************************************)
LookupIdle == [op |-> "idle", param |-> None, out |-> <<>>]

TimelineIdle == [events |-> <<>>, sorted_events |-> <<>>, pc |-> "idle"]

LoaderIdle ==
    [files |-> <<>>, pc |-> "idle", people |-> <<>>, events |-> <<>>,
     notices |-> <<>>, result |-> <<>>]

TreeIdle ==
    /\ start_id = ""
    /\ max_generations = 0
    /\ stack = <<>>
    /\ visited = {}
    /\ nodes = <<>>
    /\ edges = <<>>
    /\ status = "idle"
    /\ expanded_at = {}

(***************************************************************************)
(* The tree specification: build_graph(people, start_id, max_generations)  *)
(* on every collection of three records with distinct ids, at most one of  *)
(* them without a full_name, at the call add_node(start_id, 0).            *)
(***************************************************************************)
\* The parents field of a record: absent, or a list of at most two distinct
\* identifiers, each a record's or the dangling one.
ParentFields ==
    {[has |-> FALSE, list |-> <<>>], [has |-> TRUE, list |-> <<>>]}
        \cup {[has |-> TRUE, list |-> <<a>>] : a \in TreeIds}
        \cup {[has |-> TRUE, list |-> <<ab[1], ab[2]>>] :
                ab \in {x \in TreeIds \X TreeIds : x[1] # x[2]}}

\* Records are alike but for their names, so the record without a full_name,
\* when there is one, is the first.
TreePeople ==
    {[i \in DOMAIN TreeIdPool |->
        Person(TreeIdPool[i], TRUE, NamePool[i], ~(nameless /\ i = 1),
               pf[i].list, pf[i].has)] :
     pf \in [DOMAIN TreeIdPool -> ParentFields], nameless \in BOOLEAN}

TreeInit ==
    /\ people \in TreePeople
    /\ start_id \in TreeIds
    /\ max_generations \in 0..MaxGen
    /\ stack = <<Frame(start_id, 0)>>
    /\ visited = {}
    /\ nodes = <<>>
    /\ edges = <<>>
    /\ status = "running"
    /\ expanded_at = {}
    /\ lookup = LookupIdle
    /\ timeline = TimelineIdle
    /\ loader = LoaderIdle

TreeNext ==
    \/ AddNodeStop
    \/ AddNodeRaise
    \/ AddNodeEmit
    \/ AddNodeParent
    \/ AddNodeDone

TreeSpec == TreeInit /\ [][TreeNext]_vars

\* add_node runs to completion once called: nothing suspends it.
FairTreeSpec == TreeSpec /\ WF_vars(TreeNext)

Terminated == status \in {"done", "raised"}
(***************************************************************************)
(* The lookups: get_person_by_id, link_person, and the person main() selects *)
(* on the Profiles and the Family Tree pages.                              *)
(***************************************************************************)
\* if x: a string is true unless None or empty.
Truthy(opt) == opt # None /\ opt[1] # ""

\* [p["id"] for p in people]; raises KeyError when a record has no id.
Ids(ps) == [i \in DOMAIN ps |-> ps[i].id]

\* {p["id"]: p["full_name"] for p in people} raises KeyError likewise.
BuildingIndexRaises(ps) ==
    \E i \in DOMAIN ps : ~HasKey(ps[i], "id") \/ ~HasKey(ps[i], "full_name")

\* ids.index(x): the 0-based position of the first element equal to x.
RECURSIVE IndexFrom(_, _, _)
IndexFrom(ids, x, i) ==
    IF ids[i + 1] = x THEN i ELSE IndexFrom(ids, x, i + 1)

index(ids, x) == IndexFrom(ids, x, 0)

\* link_person(pid): "[full_name](?profile=id)" for a known person, pid else.
link_person(ps, pid) ==
    LET p == get_person_by_id(ps, pid)
    IN  IF p # None /\ p[1].keys # {}
        THEN IF ~HasKey(p[1], "full_name")
             THEN [raised |-> "KeyError", value |-> <<>>]
             ELSE [raised |-> "",
                   value |-> <<"[", p[1].full_name, "](", "?profile=", p[1].id, ")">>]
        ELSE [raised |-> "", value |-> <<pid>>]

\* main(), page "Profiles": the index handed to the selectbox, the option it
\* returns and the person then looked up.
select_profile(ps, profile_param) ==
    IF BuildingIndexRaises(ps)
    THEN [raised |-> "KeyError", warning |-> "", index |-> 0, person |-> None]
    ELSE IF Len(ps) = 0
    THEN [raised |-> "", warning |-> "No people data available.",
          index |-> 0, person |-> None]
    ELSE LET ids == Ids(ps)
             selected_id ==
                 IF profile_param # None /\ profile_param[1] \in Range(ids)
                 THEN profile_param ELSE None
             at == IF Truthy(selected_id) THEN index(ids, selected_id[1]) ELSE 0
         IN  [raised |-> "", warning |-> "", index |-> at,
              person |-> get_person_by_id(ps, ids[at + 1])]

\* main(), page "Family Tree": the index handed to the selectbox and the
\* person build_graph starts from.
select_tree(ps, profile_param) ==
    IF BuildingIndexRaises(ps)
    THEN [raised |-> "KeyError", warning |-> "", index |-> 0, person |-> None]
    ELSE LET ids == Ids(ps)
             default_id ==
                 IF Truthy(profile_param) THEN profile_param
                 ELSE IF Len(ids) > 0 THEN Some(ids[1]) ELSE None
         IN  IF Len(ids) = 0
             THEN [raised |-> "", warning |-> "No people available to display the tree.",
                   index |-> 0, person |-> None]
             ELSE LET at == IF default_id # None /\ default_id[1] \in Range(ids)
                            THEN index(ids, default_id[1]) ELSE 0
                  IN  [raised |-> "", warning |-> "", index |-> at,
                       person |-> get_person_by_id(ps, ids[at + 1])]

LookupIds == {"", "a", "b"}

\* The id and full_name fields of a record of the lookup specification: each
\* present or not, ids possibly shared between records.
LookupFields ==
    {[id |-> id, hasId |-> TRUE, hasName |-> n] : id \in LookupIds, n \in BOOLEAN}
        \cup {[id |-> "", hasId |-> FALSE, hasName |-> n] : n \in BOOLEAN}

\* The collection with these fields; names are distinct by position.
LookupPeople(fields) ==
    [i \in DOMAIN fields |->
        Person(fields[i].id, fields[i].hasId, NamePool[i], fields[i].hasName,
               <<>>, TRUE)]

LookupInit ==
    /\ \E n \in 0..MaxLookupPeople : \E fields \in [1..n -> LookupFields] :
          people = LookupPeople(fields)
    /\ lookup \in {[op |-> "idle", param |-> q, out |-> <<>>] :
                     q \in {None} \cup {Some(id) : id \in LookupIds}}
    /\ TreeIdle
    /\ timeline = TimelineIdle
    /\ loader = LoaderIdle

Answer(op, out) ==
    /\ lookup.op = "idle"
    /\ lookup' = [lookup EXCEPT !.op = op, !.out = out]
    /\ UNCHANGED <<people, start_id, max_generations, stack, visited, nodes,
                   edges, status, expanded_at, timeline, loader>>

Find ==
    /\ lookup.param # None
    /\ Answer("find", get_person_by_id(people, lookup.param[1]))

LinkPerson ==
    /\ lookup.param # None
    /\ Answer("link", link_person(people, lookup.param[1]))

PageProfiles == Answer("profiles", select_profile(people, lookup.param))

PageFamilyTree == Answer("tree", select_tree(people, lookup.param))

LookupNext ==
    \/ Find
    \/ LinkPerson
    \/ PageProfiles
    \/ PageFamilyTree

LookupSpec == LookupInit /\ [][LookupNext]_vars

(***************************************************************************)
(* render_timeline: sorted(events, key=lambda e: e.get("date", "")).       *)
(* A list of fewer than 64 elements is sorted by list.sort as follows: the *)
(* leading run is found (and reversed when strictly descending), then the  *)
(* remaining elements are placed by binary insertion.                      *)
(***************************************************************************)
\* The characters of a date string, as code points ("0" and "1").
DateChars == {48, 49}

TitlePool == <<"A", "B", "C", "D", "E", "F">>

\* An event (a dict): the key "date" present or not; the title tells the
\* events of one input apart.
Event(date, hasDate, title) ==
    [date |-> date, title |-> title,
     keys |-> {"title"} \cup (IF hasDate THEN {"date"} ELSE {})]

\* key=lambda e: e.get("date", "")
DateKey(e) == Get(e, "date", <<>>)

\* Python's str <: the first differing character decides, a proper prefix
\* is smaller.
RECURSIVE StrLessFrom(_, _, _)
StrLessFrom(x, y, k) ==
    IF k > Len(y) THEN FALSE
    ELSE IF k > Len(x) THEN TRUE
    ELSE IF x[k] # y[k] THEN x[k] < y[k]
    ELSE StrLessFrom(x, y, k + 1)

StrLess(x, y) == StrLessFrom(x, y, 1)

\* The comparison list.sort makes between two elements.
ISLT_OrEqual(x, y) == ~StrLess(DateKey(y), DateKey(x))

ISLT(x, y) == StrLess(DateKey(x), DateKey(y))

\* count_run: the length of the run starting at a[1]; descending runs are
\* strict, ascending ones are not.
RECURSIVE RunEnd(_, _, _)
RunEnd(a, k, descending) ==
    IF k >= Len(a) THEN k
    ELSE IF descending = ISLT(a[k + 1], a[k]) THEN RunEnd(a, k + 1, descending)
    ELSE k

Reverse(a) == [k \in DOMAIN a |-> a[Len(a) + 1 - k]]

\* binarysort's search for the pivot's place in a[lo+1..hi] (0-based l, r):
\* to the right of every element not greater than the pivot.
RECURSIVE BinarySearch(_, _, _, _)
BinarySearch(a, pivot, l, r) ==
    IF l >= r THEN l
    ELSE LET m == l + (r - l) \div 2
         IN  IF ISLT(pivot, a[m + 1]) THEN BinarySearch(a, pivot, l, m)
             ELSE BinarySearch(a, pivot, m + 1, r)

\* binarysort: a[1..start] is sorted; place a[start+1], a[start+2], ...
RECURSIVE BinarySort(_, _)
BinarySort(a, start) ==
    IF start >= Len(a) THEN a
    ELSE LET pivot == a[start + 1]
             l == BinarySearch(a, pivot, 0, start)
             placed == SubSeq(a, 1, l) \o <<pivot>> \o SubSeq(a, l + 1, start)
                           \o SubSeq(a, start + 2, Len(a))
         IN  BinarySort(placed, start + 1)

sorted(a) ==
    IF Len(a) < 2 THEN a
    ELSE LET descending == ISLT(a[2], a[1])
             n == RunEnd(a, 2, descending)
             run == IF descending THEN Reverse(SubSeq(a, 1, n)) ELSE SubSeq(a, 1, n)
         IN  BinarySort(run \o SubSeq(a, n + 1, Len(a)), n)

DateStrings == SeqUpTo(DateChars, MaxDateLen)

\* The date field of an event: absent, or a date string.
DateFields ==
    {[has |-> TRUE, date |-> d] : d \in DateStrings}
        \cup {[has |-> FALSE, date |-> <<>>]}

\* The events with these date fields; titles are distinct by position.
Events(fields) ==
    [i \in DOMAIN fields |-> Event(fields[i].date, fields[i].has, TitlePool[i])]

TimelineInit ==
    /\ \E n \in 0..MaxEvents : \E fields \in [1..n -> DateFields] :
          timeline = [events |-> Events(fields), sorted_events |-> <<>>, pc |-> "idle"]
    /\ people = <<>>
    /\ TreeIdle
    /\ lookup = LookupIdle
    /\ loader = LoaderIdle

\* main(), page "Timeline", without events: the warning, no timeline.
TimelineEmpty ==
    /\ timeline.pc = "idle"
    /\ Len(timeline.events) = 0
    /\ timeline' = [timeline EXCEPT !.pc = "warned"]
    /\ UNCHANGED <<people, start_id, max_generations, stack, visited, nodes,
                   edges, status, expanded_at, lookup, loader>>

\* render_timeline(events, people): the events are shown in sorted order.
RenderTimeline ==
    /\ timeline.pc = "idle"
    /\ Len(timeline.events) > 0
    /\ timeline' = [timeline EXCEPT !.pc = "rendered",
                                    !.sorted_events = sorted(timeline.events)]
    /\ UNCHANGED <<people, start_id, max_generations, stack, visited, nodes,
                   edges, status, expanded_at, lookup, loader>>

TimelineNext ==
    \/ TimelineEmpty
    \/ RenderTimeline

TimelineSpec == TimelineInit /\ [][TimelineNext]_vars

(***************************************************************************)
(* load_json and load_data.  A file either holds a list, or reading it     *)
(* raises: open raises FileNotFoundError (no such file) or another OSError *)
(* (a directory, no permission); json.load raises UnicodeDecodeError (the  *)
(* bytes are not UTF-8), JSONDecodeError (the text is not JSON) or         *)
(* RecursionError (the JSON is nested too deep).                           *)
(***************************************************************************)
RecordPool == {"r1", "r2"}

File(kind, content) == [kind |-> kind, content |-> content]

FileKinds == {"ok", "missing", "denied", "not_utf8", "not_json", "too_deep"}

FileStates ==
    {File(k, <<>>) : k \in FileKinds \ {"ok"}}
        \cup {File("ok", c) : c \in SeqUpTo(RecordPool, MaxRecords)}

\* The exception path.open or json.load raises on the file ("" for none).
ErrorOf(file) ==
    CASE file.kind = "missing"  -> "FileNotFoundError"
      [] file.kind = "denied"   -> "PermissionError"
      [] file.kind = "not_utf8" -> "UnicodeDecodeError"
      [] file.kind = "not_json" -> "JSONDecodeError"
      [] file.kind = "too_deep" -> "RecursionError"
      [] OTHER                  -> ""

\* The exceptions the two except clauses of load_json catch.
Caught == {"FileNotFoundError", "JSONDecodeError"}

\* load_json(path): the parsed list; [] and a notice for a caught exception;
\* any other exception leaves the function.
load_json(path, file) ==
    IF ErrorOf(file) = ""
    THEN [raised |-> "", value |-> file.content, notices |-> <<>>]
    ELSE IF ErrorOf(file) \in Caught
    THEN [raised |-> "", value |-> <<>>,
          notices |-> << <<IF ErrorOf(file) = "FileNotFoundError"
                           THEN "File not found" ELSE "Error parsing", path>> >>]
    ELSE [raised |-> ErrorOf(file), value |-> <<>>, notices |-> <<>>]

LoadInit ==
    /\ loader \in {[files |-> [people |-> fp, events |-> fe], pc |-> "start",
                    people |-> <<>>, events |-> <<>>, notices |-> <<>>,
                    result |-> [people |-> <<>>, events |-> <<>>]] :
                     fp \in FileStates, fe \in FileStates}
    /\ people = <<>>
    /\ TreeIdle
    /\ lookup = LookupIdle
    /\ timeline = TimelineIdle

LoadUnchanged ==
    UNCHANGED <<people, start_id, max_generations, stack, visited, nodes,
                edges, status, expanded_at, lookup, timeline>>

\* people = load_json(data_dir / "people.json")
LoadPeople ==
    /\ loader.pc = "start"
    /\ LET r == load_json("people.json", loader.files.people)
       IN  loader' = IF r.raised # "" THEN [loader EXCEPT !.pc = "crashed"]
                     ELSE [loader EXCEPT !.pc = "people_loaded",
                                         !.people = r.value,
                                         !.notices = loader.notices \o r.notices]
    /\ LoadUnchanged

\* events = load_json(data_dir / "events.json")
LoadEvents ==
    /\ loader.pc = "people_loaded"
    /\ LET r == load_json("events.json", loader.files.events)
       IN  loader' = IF r.raised # "" THEN [loader EXCEPT !.pc = "crashed"]
                     ELSE [loader EXCEPT !.pc = "events_loaded",
                                         !.events = r.value,
                                         !.notices = loader.notices \o r.notices]
    /\ LoadUnchanged

\* return {"people": people, "events": events}
ReturnData ==
    /\ loader.pc = "events_loaded"
    /\ loader' = [loader EXCEPT !.pc = "returned",
                                !.result = [people |-> loader.people,
                                            events |-> loader.events]]
    /\ LoadUnchanged

LoadNext ==
    \/ LoadPeople
    \/ LoadEvents
    \/ ReturnData

LoadSpec == LoadInit /\ [][LoadNext]_vars

(***************************************************************************)
(* Properties of build_graph.                                              *)
(***************************************************************************)
NodeIds == {nodes[k][1] : k \in DOMAIN nodes}

NodesDistinct ==
    \A j, k \in DOMAIN nodes : nodes[j][1] = nodes[k][1] => j = k

IsDangling(pid) == get_person_by_id(people, pid) = None

\* The identifiers within k parent links of start_id.
RECURSIVE WithinHops(_)
WithinHops(k) ==
    IF k = 0 THEN {start_id}
    ELSE LET near == WithinHops(k - 1)
         IN  near \cup UNION {Range(ParentsOf(pid)) : pid \in near}

\* C1: build_graph terminates on every collection, cyclic ones included:
\* no identifier is expanded twice, and the outermost add_node call
\* eventually returns (or is left by the KeyError of a nameless record).
C1_Terminates == [](NodesDistinct) /\ <>Terminated

\* C1's case: a run over a two-person parent cycle has returned.
C1_Witness ==
    /\ status = "done"
    /\ \E j, k \in DOMAIN edges :
          /\ edges[j][1] # edges[j][2]
          /\ edges[j][1] = edges[k][2]
          /\ edges[j][2] = edges[k][1]

\* C2: with max_generations = 0 the graph has exactly one node and no edge.
C2_ZeroGenerations ==
    (status = "done" /\ max_generations = 0)
        => (Len(nodes) = 1 /\ Len(edges) = 0)

\* C3 as stated: every dangling parent of every expanded person has a node
\* labelled with the raw identifier and an edge to that person.
C3_DanglingAlways ==
    status = "done" =>
        \A pid \in NodeIds : \A d \in Range(ParentsOf(pid)) :
            IsDangling(d) =>
                (<<d, d>> \in Range(nodes) /\ <<d, pid>> \in Range(edges))

\* C3 as amended: every dangling parent of a person expanded at a generation
\* below max_generations has a node labelled with the raw identifier and an
\* edge to that person.
C3_DanglingBelowBound ==
    status = "done" =>
        \A e \in expanded_at : \A d \in Range(ParentsOf(e[1])) :
            (e[2] < max_generations /\ IsDangling(d)) =>
                (<<d, d>> \in Range(nodes) /\ <<d, e[1]>> \in Range(edges))

\* C3's case: a person expanded below the bound has a dangling parent, and
\* the run has returned.
C3_Witness ==
    /\ status = "done"
    /\ \E e \in expanded_at :
          /\ e[2] < max_generations
          /\ e[2] > 0
          /\ DanglingId \in Range(ParentsOf(e[1]))

\* C9: a node is emitted for an identifier exactly when the identifier is
\* within max_generations parent links of start_id.
C9_NodesAreTheBoundedAncestors ==
    status = "done" => NodeIds = WithinHops(max_generations)

\* C10: both endpoints of every emitted edge are emitted nodes, and the tail
\* is a parent of the head.
C10_EdgeEndpointsAreNodes ==
    status = "done" =>
        \A k \in DOMAIN edges :
            /\ edges[k][1] \in NodeIds
            /\ edges[k][2] \in NodeIds
            /\ edges[k][1] \in Range(ParentsOf(edges[k][2]))
(***************************************************************************)
(* Properties of the lookups.                                              *)
(***************************************************************************)
\* The positions of the records whose id is pid.
Matches(pid) == {i \in DOMAIN people : HasKey(people[i], "id") /\ people[i].id = pid}

\* C4: get_person_by_id returns the first record, in collection order, whose
\* id is the identifier, and None when no record has it.
C4_FindFirstOrNone ==
    lookup.op = "find" =>
        LET hits == Matches(lookup.param[1])
        IN  lookup.out = IF hits = {} THEN None ELSE Some(people[Min(hits)])

\* C4's case: the identifier is carried by two records, after the first.
C4_Witness ==
    /\ lookup.op = "find"
    /\ Cardinality(Matches(lookup.param[1])) >= 2
    /\ Min(Matches(lookup.param[1])) > 1
    /\ lookup.out # None

\* C7: link_person never fails; a known identifier gives the full name with
\* the profile link, an unknown one the raw identifier.
C7_LinkNeverFails ==
    lookup.op = "link" =>
        LET pid == lookup.param[1]
            hits == Matches(pid)
        IN  /\ lookup.out.raised = ""
            /\ hits = {} => lookup.out.value = <<pid>>
            /\ hits # {} =>
                 lookup.out.value =
                     <<"[", people[Min(hits)].full_name, "](", "?profile=", pid, ")">>

\* C8: on both pages, with people available, the selected person is the
\* first record whose id is the parameter when the parameter is present and
\* matches a record, and the first record otherwise.
C8_SelectedFromParameter ==
    (lookup.op \in {"profiles", "tree"} /\ lookup.out.raised = "" /\ Len(people) > 0)
        => LET hits == IF lookup.param = None THEN {} ELSE Matches(lookup.param[1])
               want == IF hits = {} THEN 1 ELSE Min(hits)
           IN  /\ lookup.out.index = want - 1
               /\ lookup.out.person = Some(people[want])
(***************************************************************************)
(* Properties of the timeline.                                             *)
(***************************************************************************)
\* The position of an event in the input (titles are distinct).
InputPosition(e) == CHOOSE k \in DOMAIN timeline.events : timeline.events[k] = e

\* C5: the timeline order is a permutation of the input in non-decreasing
\* date order, a missing date counting as the empty string (so first); events
\* with equal dates keep their input order; sorting the output changes nothing.
C5_StableChronological ==
    timeline.pc = "rendered" =>
        LET input == timeline.events
            out == timeline.sorted_events
        IN  /\ Len(out) = Len(input)
            /\ Range(out) = Range(input)
            /\ \A j, k \in DOMAIN out :
                 j < k =>
                    /\ ~StrLess(Get(out[k], "date", <<>>), Get(out[j], "date", <<>>))
                    /\ Get(out[k], "date", <<>>) = Get(out[j], "date", <<>>)
                          => InputPosition(out[j]) < InputPosition(out[k])
                    /\ ~HasKey(out[k], "date") => Get(out[j], "date", <<>>) = <<>>
            /\ sorted(out) = out

\* C5's case: an input out of order, with two events of one date and an
\* event without a date that is not first, has been rendered.
C5_Witness ==
    /\ timeline.pc = "rendered"
    /\ timeline.sorted_events # timeline.events
    /\ \E j, k \in DOMAIN timeline.events :
          /\ j < k
          /\ HasKey(timeline.events[j], "date")
          /\ HasKey(timeline.events[k], "date")
          /\ timeline.events[j].date = timeline.events[k].date
    /\ \E k \in DOMAIN timeline.events :
          k > 1 /\ ~HasKey(timeline.events[k], "date")

(***************************************************************************)
(* Properties of the loader.                                               *)
(***************************************************************************)
Sources == {"people", "events"}

FileName(s) == IF s = "people" THEN "people.json" ELSE "events.json"

\* A source that is present but not well-formed: its bytes are not UTF-8 text,
\* or its text is not JSON.
Malformed == {"not_utf8", "not_json"}

\* C6: when the sources are each well-formed, missing or malformed, loading
\* does not fail; a missing or malformed source gives an empty collection and
\* a notice naming it, and the other source's records are returned unchanged.
C6_DegradesToEmpty ==
    /\ (\A s \in Sources : loader.files[s].kind \in {"ok", "missing"} \cup Malformed)
          => loader.pc # "crashed"
    /\ loader.pc = "returned" =>
          \A s \in Sources :
             /\ loader.files[s].kind = "ok" =>
                  /\ loader.result[s] = loader.files[s].content
                  /\ \A k \in DOMAIN loader.notices : loader.notices[k][2] # FileName(s)
             /\ loader.files[s].kind = "missing" =>
                  /\ loader.result[s] = <<>>
                  /\ <<"File not found", FileName(s)>> \in Range(loader.notices)
             /\ loader.files[s].kind \in Malformed =>
                  /\ loader.result[s] = <<>>
                  /\ <<"Error parsing", FileName(s)>> \in Range(loader.notices)

\* What load_json does achieve: with each source well-formed, missing or not
\* JSON text, load_data returns; a missing source and one that is not JSON
\* give an empty collection and a notice, the other source is unchanged.
CaughtErrorsDegrade ==
    /\ (\A s \in Sources : loader.files[s].kind \in {"ok", "missing", "not_json"})
          => loader.pc # "crashed"
    /\ loader.pc = "returned" =>
          \A s \in Sources :
             /\ loader.files[s].kind \in {"ok", "missing", "not_json"}
             /\ loader.result[s] = loader.files[s].content
             /\ loader.files[s].kind = "missing" =>
                  <<"File not found", FileName(s)>> \in Range(loader.notices)
             /\ loader.files[s].kind = "not_json" =>
                  <<"Error parsing", FileName(s)>> \in Range(loader.notices)
====
